---- MODULE Spec2Model ----
(***************************************************************************)
(* Backend proxy of the weather dashboard (src/backend/server.js).  The    *)
(* file holds two revisions of the server:                                 *)
(*   "explicit"   - lines 1-314, every handler calls cache.get/cache.set   *)
(*                  itself and builds its own error responses;             *)
(*   "middleware" - lines 316-669, handleValidationErrors, cacheMiddleware *)
(*                  (res.json interception) and the central errorHandler.  *)
(* The variable rev fixes which revision is deployed.  Time is counted in  *)
(* milliseconds and advances in steps of Step.                             *)
(* The mapping of the geocode results and the frontend's helpers and       *)
(* HourlyForecastCard (src/frontend/src) are evaluated on their own, with  *)
(* the server idle (SpecParts).                                            *)
(***************************************************************************)
EXTENDS Integers, Sequences, FiniteSets, TLC

(***************************************************************************)
(* Bounds of the model.  max and maxKeys stand for the limiter budget and  *)
(* the cache capacity (both 100 in the source); the model runs them with a *)
(* small budget so that exhaustion is reached.                             *)
(***************************************************************************)
max == 3
maxKeys == 1
MaxInflight == 2
Step == 300000

(* Program constants *)
stdTTL == 300
windowMs == 15 * 60 * 1000

Revisions == {"explicit", "middleware"}
Clients == {"ip1", "ip2"}

(***************************************************************************)
(* Requests.  A query parameter that is not sent is Absent.                *)
(***************************************************************************)
Absent == "<absent>"

Req(path, q, lat, lon, tz) ==
  [path |-> path, query |-> q, latitude |-> lat, longitude |-> lon, timezone |-> tz]

NoReq == Req("-", Absent, Absent, Absent, Absent)

HealthReqs == {Req("/api/health", Absent, Absent, Absent, Absent)}
ClearReqs == {Req("/api/cache/clear", Absent, Absent, Absent, Absent)}
GeocodeReqs == {Req("/api/geocode", q, Absent, Absent, Absent) : q \in {Absent, "a", "ab"}}
UnsplashReqs == {Req("/api/unsplash", q, Absent, Absent, Absent) : q \in {"a", "ab"}}
WeatherReqs ==
  {Req("/api/weather", Absent, "51.5", "-0.12", "Europe/London"),
   Req("/api/weather", Absent, "51.5", "-0.12", "UTC"),
   Req("/api/weather", "ab", "40.7", "-0.12", "UTC"),
   Req("/api/weather", Absent, "abc", "-0.12", "UTC"),
   Req("/api/weather", Absent, "51.5", "xyz", "UTC"),
   Req("/api/weather", Absent, "51.5", "-0.12", ""),
   Req("/api/weather", Absent, "abc", "-0.12", Absent)}

ApiPaths == {"/api/geocode", "/api/weather", "/api/unsplash"}

(* the strings of the modelled inputs that validator's isFloat() accepts *)
FloatStrings == {"51.5", "40.7", "-0.12"}

(* `${v}` of a template literal *)
Interp(v) == IF v = Absent THEN "undefined" ELSE v

(* JavaScript truthiness of a query parameter (a string or undefined) *)
TruthyParam(v) == v # Absent /\ v # ""

(***************************************************************************)
(* Response bodies.  One record shape for every body:                      *)
(*   kind     what was sent                                                *)
(*   results  the geocode result list                                      *)
(*   data     the provider payload (weather / image), by name              *)
(*   error    type of the top-level error field                            *)
(*   details  type of the top-level details field                          *)
(*   errors   the errors array of a validation response (field names)      *)
(***************************************************************************)
Body(kind, results, data, error, details, errors) ==
  [kind |-> kind, results |-> results, data |-> data,
   error |-> error, details |-> details, errors |-> errors]

Undefined == Body("undefined", <<>>, "-", "absent", "absent", <<>>)
HealthBody == Body("health", <<>>, "-", "absent", "absent", <<>>)
MessageBody == Body("message", <<>>, "-", "absent", "absent", <<>>)
TextBody == Body("text", <<>>, "-", "absent", "absent", <<>>)
HtmlBody == Body("html", <<>>, "-", "absent", "absent", <<>>)
ValidationBody(fields) == Body("validation", <<>>, "-", "absent", "absent", fields)
Envelope(error, details) == Body("envelope", <<>>, "-", error, details, <<>>)
GeocodeBody(list) == Body("geocode", list, "-", "absent", "absent", <<>>)
ArrayBody(list) == Body("array", list, "-", "absent", "absent", <<>>)
PayloadBody(kind, data) == Body(kind, <<>>, data, "absent", "absent", <<>>)

(* every value the handlers put in the cache is an object or an array *)
Truthy(v) == v.kind # "undefined"

(***************************************************************************)
(* Provider records of the geocoding API and their reshaping.              *)
(***************************************************************************)
RawItem(formatted, lat, lng, tz) ==
  [formatted |-> formatted, lat |-> lat, lng |-> lng, tzname |-> tz]

London == RawItem("London, UK", "51.5", "-0.12", "Europe/London")
LondonNoTz == RawItem("London, UK", "51.5", "-0.12", Absent)
York == RawItem("New York, US", "40.7", "-0.12", "UTC")

GeoLists == {<<>>, <<London, LondonNoTz>>, <<York, London>>}

(* results.map(item => ...): timezone defaults to "" *)
MapItem(item) ==
  [formatted |-> item.formatted, lat |-> item.lat, lng |-> item.lng,
   timezone |-> IF item.tzname = Absent THEN "" ELSE item.tzname]

MapItems(list) == [i \in 1..Len(list) |-> MapItem(list[i])]

Identifier(item) == item.formatted \o "|" \o item.lat \o "|" \o item.lng

RECURSIVE DedupeFrom(_, _, _)
DedupeFrom(list, seen, acc) ==
  IF list = <<>> THEN acc
  ELSE LET item == Head(list) IN
       IF Identifier(item) \in seen
       THEN DedupeFrom(Tail(list), seen, acc)
       ELSE DedupeFrom(Tail(list), seen \cup {Identifier(item)}, Append(acc, item))

(* mutant: the last occurrence of a triple is the one that is kept *)
Dedupe_KeepsLast(list) ==
  LET reversed(l) == [i \in 1..Len(l) |-> l[Len(l) + 1 - i]]
  IN reversed(DedupeFrom(reversed(list), {}, <<>>))

(* mutant: every mapped result is kept *)
Dedupe_KeepsAll(list) == list

Dedupe(list) == DedupeFrom(list, {}, <<>>)

(***************************************************************************)
(* Upstream outcomes.  t is "ok" (2xx with a body), "missing" (2xx whose   *)
(* body has no results field), "http" (the HTTP client rejects with a      *)
(* response of the given status), "network" (it rejects with no response), *)
(* "errors" (unsplash-js resolves with result.errors for the given status) *)
(* or "throw" (unsplash-js rejects).                                       *)
(***************************************************************************)
Outcome(t, status, results, data) ==
  [t |-> t, status |-> status, results |-> results, data |-> data]

UpstreamStatuses == {401, 429, 503}

HttpFailures ==
  {Outcome("http", st, <<>>, "-") : st \in UpstreamStatuses}
    \cup {Outcome("network", 0, <<>>, "-")}

Outcomes(path) ==
  CASE path = "/api/geocode" ->
         {Outcome("ok", 200, l, "-") : l \in GeoLists}
           \cup {Outcome("missing", 200, <<>>, "-")} \cup HttpFailures
    [] path = "/api/weather" ->
         {Outcome("ok", 200, <<>>, d) : d \in {"W1", "W2"}} \cup HttpFailures
    [] path = "/api/unsplash" ->
         {Outcome("ok", 200, <<>>, "IMG1"), Outcome("throw", 0, <<>>, "-")}
           \cup {Outcome("errors", st, <<>>, "-") : st \in UpstreamStatuses}
    [] OTHER -> {}

IsFailure(o) == o.t \in {"http", "network", "errors", "throw"}

(***************************************************************************)
(* NodeCache({ stdTTL, checkperiod, maxKeys }).  The cache is a function   *)
(* from the stored keys to [v, age]; age is the time since cache.set.      *)
(***************************************************************************)
(* by is not part of the cache: it remembers the request whose handler     *)
(* stored the entry.                                                       *)
EmptyCache == [k \in {} |-> [v |-> Undefined, age |-> 0, by |-> NoReq]]

(* mutant: the entry outlives its TTL by one step *)
Expired_Late(entry) == entry.age > stdTTL * 1000 + Step

Expired(entry) == entry.age > stdTTL * 1000

Remove(c, k) == [x \in (DOMAIN c) \ {k} |-> c[x]]

(* cache.get(key): an expired entry is deleted and reads as undefined *)
cacheGet(c, k) ==
  IF k \notin DOMAIN c THEN [c |-> c, v |-> Undefined]
  ELSE IF Expired(c[k]) THEN [c |-> Remove(c, k), v |-> Undefined]
  ELSE [c |-> c, v |-> c[k].v]

(* cache.set(key, value): throws ECACHEFULL when maxKeys keys are stored *)
cacheSet(c, k, v, by) ==
  IF Cardinality(DOMAIN c) >= maxKeys
  THEN [ok |-> FALSE, c |-> c]
  ELSE [ok |-> TRUE,
        c |-> [x \in (DOMAIN c) \cup {k} |->
                 IF x = k THEN [v |-> v, age |-> 0, by |-> by] ELSE c[x]]]

(* mutant: only the expired entries are dropped *)
flushAll_KeepsLive(c) == [x \in {k \in DOMAIN c : ~(c[k].age > stdTTL * 1000)} |-> c[x]]

(* cache.flushAll() *)
flushAll(c) == EmptyCache

(* the periodic check (checkperiod) deletes every expired entry *)
checkData(c) == [x \in {k \in DOMAIN c : ~Expired(c[k])} |-> c[x]]

(***************************************************************************)
(* rateLimit({ windowMs, max }): per client, count is the number of hits   *)
(* in the current window, age the time since the window opened, admitted   *)
(* the number of requests of this window that were let through.            *)
(***************************************************************************)
NoHits == [count |-> 0, age |-> 0, admitted |-> 0]

(* mutant: the budget is one too large *)
limiterAllows_OffByOne(count) == count <= max + 1

limiterAllows(count) == count <= max

limiterHit(h, ip) ==
  LET cur == IF h[ip].age >= windowMs THEN NoHits ELSE h[ip]
      n == cur.count + 1
      ok == limiterAllows(n)
  IN [allowed |-> ok,
      hits |-> [h EXCEPT ![ip] = [count |-> n, age |-> cur.age,
                                  admitted |-> cur.admitted + (IF ok THEN 1 ELSE 0)]]]

(***************************************************************************)
(* express-validator chains of the routes: the failed fields, one entry    *)
(* per failed validator, in declaration order.                             *)
(***************************************************************************)
isString(v) == v # Absent
isLengthMin2(v) == v # Absent /\ Len(v) >= 2
isFloat(v) == v \in FloatStrings
notEmpty(v) == v # Absent /\ v # ""

Check(ok, field) == IF ok THEN <<>> ELSE <<field>>

validators(req) ==
  CASE req.path \in {"/api/geocode", "/api/unsplash"} ->
         Check(isString(req.query), "query") \o Check(isLengthMin2(req.query), "query")
    [] req.path = "/api/weather" ->
         Check(isFloat(req.latitude), "latitude")
           \o Check(isFloat(req.longitude), "longitude")
           \o Check(isString(req.timezone), "timezone")
           \o Check(notEmpty(req.timezone), "timezone")
    [] OTHER -> <<>>

(***************************************************************************)
(* Cache keys.                                                             *)
(***************************************************************************)
(* explicit revision: `unsplash:${q}`, `geocode:${q}`, `weather:${lat}:${lon}:${tz}` *)
cacheKeyExplicit(req) ==
  CASE req.path = "/api/unsplash" -> "unsplash:" \o Interp(req.query)
    [] req.path = "/api/geocode" -> "geocode:" \o Interp(req.query)
    [] OTHER -> "weather:" \o Interp(req.latitude) \o ":" \o Interp(req.longitude)
                  \o ":" \o Interp(req.timezone)

(* cacheMiddleware: `${req.path}:${req.query.query || `${latitude}:${longitude}`}` *)
cacheKeyMiddleware(req) ==
  req.path \o ":" \o
    (IF TruthyParam(req.query) THEN req.query
     ELSE Interp(req.latitude) \o ":" \o Interp(req.longitude))

cacheKey(r, req) ==
  IF r = "explicit" THEN cacheKeyExplicit(req) ELSE cacheKeyMiddleware(req)


(***************************************************************************)
(* State.                                                                  *)
(*   rev           the deployed revision                                   *)
(*   isProduction  NODE_ENV === "production"                               *)
(*   workload      the clients of this run and the requests they send      *)
(*   cache         the NodeCache instance                                  *)
(*   hits          the limiter's store, per client                         *)
(*   inflight      the requests suspended in `await` on their upstream     *)
(*                 call, in order of arrival                               *)
(*   last          what the last step did: the request it handled, the     *)
(*                 response it sent, what the request touched              *)
(*   lastOk        the last 200 response of /api/geocode or /api/weather   *)
(*                 that was fetched from upstream, and its age             *)
(*   cleared       the keys that the latest cache clear removed and that   *)
(*                 no request has looked up since: "cleared", or           *)
(*                 "refilled" once a handler has stored the key again      *)
(*   probe         the function or frontend component that is evaluated    *)
(*                 on its own, with its input and its result               *)
(***************************************************************************)
VARIABLES rev, isProduction, workload, cache, hits, inflight, last, lastOk,
          cleared, probe

serverVars == <<rev, isProduction, workload, cache, hits, inflight, last, lastOk, cleared>>

vars == <<rev, isProduction, workload, cache, hits, inflight, last, lastOk, cleared, probe>>

(***************************************************************************)
(* What a step did.  ev is "answered" (a request arrived and got its       *)
(* response in the same step), "forwarded" (it arrived and suspended on    *)
(* its upstream call), "replied" (a suspended request resumed and got its  *)
(* response) or "none".  preCount is the client's hit count and preAge,    *)
(* preBy the age and the writer of the cache entry of the request's key,   *)
(* all at arrival (preAge -1: no entry); over is the writer of the entry   *)
(* that the response replaced; otype, ostatus, oresults the upstream       *)
(* outcome and the provider's result list; sinceClear what `cleared` held  *)
(* for the request's key when it was looked up ("-": nothing).             *)
(***************************************************************************)
Event(ev, req, status, body, via, trace, preCount, preAge, preBy, over, otype, ostatus, oresults, sinceClear) ==
  [ev |-> ev, req |-> req, status |-> status, body |-> body, via |-> via,
   trace |-> trace, preCount |-> preCount, preAge |-> preAge, preBy |-> preBy,
   over |-> over, otype |-> otype, ostatus |-> ostatus,
   oresults |-> oresults, sinceClear |-> sinceClear]

NoEvent ==
  Event("none", NoReq, 0, Undefined, "-", {}, 0, -1, NoReq, NoReq, "none", 0, <<>>, "-")

(* nothing is evaluated on its own *)
NoProbe == [op |-> "none"]

NoOk == [valid |-> FALSE, req |-> NoReq, body |-> Undefined, age |-> 0]

(* mutant: the limiter is mounted behind the validation and the cache, so  *)
(* that a cache hit is answered before the limiter counts it               *)
Chain_CacheFirst(r, path) ==
  CASE path = "/api/health" -> <<"health">>
    [] path = "/api/cache/clear" -> <<"limiter", "cacheClear">>
    [] OTHER ->
         IF r = "explicit"
         THEN <<"limiter", "validators", "handlerExplicit">>
         ELSE <<"validators", "handleValidationErrors", "cacheMiddleware",
                "limiter", "handler">>

(* mutant: the limiter is mounted on the routes, behind the validators *)
Chain_LimiterLate(r, path) ==
  CASE path = "/api/health" -> <<"health">>
    [] path = "/api/cache/clear" -> <<"limiter", "cacheClear">>
    [] OTHER ->
         IF r = "explicit"
         THEN <<"validators", "limiter", "handlerExplicit">>
         ELSE <<"validators", "limiter", "handleValidationErrors",
                "cacheMiddleware", "handler">>

(***************************************************************************)
(* The middleware stack of a route, in registration order.  /api/health is *)
(* registered before app.use(limiter); every other route after it.         *)
(***************************************************************************)
Chain(r, path) ==
  CASE path = "/api/health" -> <<"health">>
    [] path = "/api/cache/clear" -> <<"limiter", "cacheClear">>
    [] OTHER ->
         IF r = "explicit"
         THEN <<"limiter", "validators", "handlerExplicit">>
         ELSE <<"limiter", "validators", "handleValidationErrors",
                "cacheMiddleware", "handler">>

(***************************************************************************)
(* The synchronous part of a request: the middlewares run in order until   *)
(* one of them sends a response or the handler suspends on its upstream    *)
(* call.  ctx carries the state they read and write.                       *)
(***************************************************************************)
Ctx0(c, h) ==
  [cache |-> c, hits |-> h, done |-> FALSE, forward |-> FALSE, status |-> 0,
   body |-> Undefined, via |-> "-", trace |-> {}, verrs |-> <<>>, key |-> "-",
   patched |-> FALSE, preCount |-> 0, preAge |-> -1, preBy |-> NoReq]

Send(ctx, status, body, via) ==
  [ctx EXCEPT !.done = TRUE, !.status = status, !.body = body, !.via = via]

(* mutant: the cached value is read but the handler goes on *)
Lookup_NoReturn(ctx, key, wrap, via) ==
  LET g == cacheGet(ctx.cache, key)
      had == key \in DOMAIN ctx.cache
  IN [ctx EXCEPT !.cache = g.c, !.key = key,
                 !.trace = @ \cup {"cacheGet"},
                 !.preAge = IF had THEN ctx.cache[key].age ELSE -1,
                 !.preBy = IF had THEN ctx.cache[key].by ELSE NoReq]

(* const cached = cache.get(cacheKey); if (cached) return res.json(...) *)
Lookup(ctx, key, wrap, via) ==
  LET g == cacheGet(ctx.cache, key)
      had == key \in DOMAIN ctx.cache
      seen == [ctx EXCEPT !.cache = g.c, !.key = key,
                          !.trace = @ \cup {"cacheGet"},
                          !.preAge = IF had THEN ctx.cache[key].age ELSE -1,
                          !.preBy = IF had THEN ctx.cache[key].by ELSE NoReq]
  IN IF Truthy(g.v)
     THEN Send(seen, 200, IF wrap THEN GeocodeBody(g.v.results) ELSE g.v, via)
     ELSE seen

limiter(ctx, ip) ==
  LET h == limiterHit(ctx.hits, ip)
      counted == [ctx EXCEPT !.hits = h.hits, !.trace = @ \cup {"limiter"},
                             !.preCount = IF ctx.hits[ip].age >= windowMs
                                          THEN 0 ELSE ctx.hits[ip].count]
  IN IF h.allowed THEN counted ELSE Send(counted, 429, TextBody, "limiter")

(* mutant: the errors are found but next() is called all the same *)
handleValidationErrors_NoReturn(ctx) == ctx

handleValidationErrors(ctx) ==
  IF ctx.verrs # <<>>
  THEN Send(ctx, 400, ValidationBody(ctx.verrs), "handleValidationErrors")
  ELSE ctx

cacheMiddleware(ctx, req) ==
  LET seen == Lookup(ctx, cacheKeyMiddleware(req), FALSE, "cacheMiddleware")
  IN IF seen.done THEN seen ELSE [seen EXCEPT !.patched = TRUE]

CallUpstream(ctx) ==
  [ctx EXCEPT !.done = TRUE, !.forward = TRUE, !.trace = @ \cup {"upstreamCall"}]

(* explicit revision: validationResult, cache.get, then the upstream call *)
handlerExplicit(ctx, req) ==
  IF ctx.verrs # <<>>
  THEN Send(ctx, 400, ValidationBody(ctx.verrs), "handler")
  ELSE LET seen == Lookup(ctx, cacheKeyExplicit(req), req.path = "/api/geocode", "handler")
       IN IF seen.done THEN seen ELSE CallUpstream(seen)

Stage(name, ctx, ip, req) ==
  CASE name = "health" -> Send(ctx, 200, HealthBody, "health")
    [] name = "limiter" -> limiter(ctx, ip)
    [] name = "cacheClear" ->
         Send([ctx EXCEPT !.cache = flushAll(@), !.trace = @ \cup {"flushAll"}],
              200, MessageBody, "cacheClear")
    [] name = "validators" ->
         [ctx EXCEPT !.verrs = validators(req), !.trace = @ \cup {"validated"}]
    [] name = "handleValidationErrors" -> handleValidationErrors(ctx)
    [] name = "cacheMiddleware" -> cacheMiddleware(ctx, req)
    [] name = "handler" -> CallUpstream(ctx)
    [] name = "handlerExplicit" -> handlerExplicit(ctx, req)

RECURSIVE RunChain(_, _, _, _)
RunChain(chain, ctx, ip, req) ==
  IF chain = <<>> \/ ctx.done THEN ctx
  ELSE RunChain(Tail(chain), Stage(Head(chain), ctx, ip, req), ip, req)

(***************************************************************************)
(* The part of a handler after `await`: it resumes with the upstream       *)
(* outcome o.  A result is [ok, cache, status, body, via, trace]; ok is    *)
(* FALSE when the call threw instead of sending.                           *)
(***************************************************************************)
Result(ok, c, status, body, via, trace) ==
  [ok |-> ok, cache |-> c, status |-> status, body |-> body, via |-> via, trace |-> trace]

(* res.json(body): behind cacheMiddleware it is the wrapper that calls     *)
(* cache.set(cacheKey, body) before the original res.json                  *)
json(c, inf, status, body, via) ==
  IF inf.patched
  THEN LET s == cacheSet(c, inf.key, body, inf.req)
       IN IF s.ok THEN Result(TRUE, s.c, status, body, via, {"cacheSet"})
          ELSE Result(FALSE, c, status, body, via, {})
  ELSE Result(TRUE, c, status, body, via, {})

(* an Error as the handlers see it: status is err.status (0: not set),     *)
(* response the status of err.response of an axios error (0: no response)  *)
Err(status, response) == [status |-> status, response |-> response]

ErrOf(o) ==
  CASE o.t = "http" -> Err(0, o.status)
    [] o.t = "errors" -> Err(500, 0)
    [] OTHER -> Err(0, 0)

(* errorHandler(err, req, res, next) of the middleware revision; when its  *)
(* own res.json throws, Express falls through to its default handler,      *)
(* which answers with the status already set and an HTML body              *)
errorHandler(prod, c, inf, err) ==
  LET statusCode == IF err.response # 0 THEN err.response
                    ELSE IF err.status # 0 THEN err.status ELSE 500
      sent == json(c, inf, statusCode,
                   Envelope("string", IF prod THEN "absent" ELSE "string"),
                   "errorHandler")
  IN IF sent.ok THEN sent
     ELSE Result(TRUE, c, statusCode, HtmlBody, "finalhandler", {})

(* the body a handler sends for a 2xx upstream answer *)
SuccessBody(path, o) ==
  CASE path = "/api/geocode" ->
         IF o.t = "missing" \/ o.results = <<>> THEN GeocodeBody(<<>>)
         ELSE GeocodeBody(Dedupe(MapItems(o.results)))
    [] path = "/api/weather" -> PayloadBody("weather", o.data)
    [] OTHER -> PayloadBody("image", o.data)

(* middleware revision: res.json(...) in the try block, next(error) in catch *)
ResumeMiddleware(prod, c, inf, o) ==
  IF IsFailure(o) THEN errorHandler(prod, c, inf, ErrOf(o))
  ELSE LET sent == json(c, inf, 200, SuccessBody(inf.req.path, o), "handler")
       IN IF sent.ok THEN sent ELSE errorHandler(prod, c, inf, Err(0, 0))

(* explicit revision: the catch block of each handler *)
CatchExplicit(prod, c, path, o) ==
  IF o.t = "http" /\ o.status = 429
  THEN Result(TRUE, c, 429, Envelope("string", "absent"), "handler", {})
  ELSE Result(TRUE, c, 500,
              Envelope("string",
                       IF path # "/api/unsplash" /\ prod THEN "absent" ELSE "string"),
              "handler", {})

(* explicit revision: cache.set(cacheKey, value); res.json(body) *)
StoreExplicit(prod, c, inf, value, body) ==
  LET s == cacheSet(c, inf.key, value, inf.req)
  IN IF s.ok THEN Result(TRUE, s.c, 200, body, "handler", {"cacheSet"})
     ELSE CatchExplicit(prod, c, inf.req.path, Outcome("throw", 0, <<>>, "-"))

ResumeExplicit(prod, c, inf, o) ==
  LET path == inf.req.path
      body == SuccessBody(path, o)
  IN CASE o.t = "errors" ->
            Result(TRUE, c, 500, Envelope("string", "array"), "handler", {})
       [] o.t \in {"http", "network", "throw"} -> CatchExplicit(prod, c, path, o)
       [] o.t \in {"ok", "missing"} /\ path = "/api/geocode" /\ body.results = <<>> ->
            Result(TRUE, c, 200, body, "handler", {})
       [] o.t \in {"ok", "missing"} /\ path = "/api/geocode" /\ body.results # <<>> ->
            StoreExplicit(prod, c, inf, ArrayBody(body.results), body)
       [] OTHER -> StoreExplicit(prod, c, inf, body, body)

Resume(r, prod, c, inf, o) ==
  IF r = "explicit" THEN ResumeExplicit(prod, c, inf, o)
  ELSE ResumeMiddleware(prod, c, inf, o)

(***************************************************************************)
(* Workloads: the clients of a run, the requests they send and the kinds   *)
(* of answer the providers give during the run.                            *)
(***************************************************************************)
OutcomeTypes == {"ok", "missing", "http", "network", "errors", "throw"}

Workload(cs, rs) == [clients |-> cs, requests |-> rs, answers |-> OutcomeTypes]

(* a run in which the providers are healthy *)
HealthyWorkload(cs, rs) == [Workload(cs, rs) EXCEPT !.answers = {"ok", "missing"}]

Answers(path) == {o \in Outcomes(path) : o.t \in workload.answers}

AllReqs == HealthReqs \cup ClearReqs \cup GeocodeReqs \cup UnsplashReqs \cup WeatherReqs

Valid(rs) == {r \in rs : validators(r) = <<>>}

Workloads ==
  {Workload({"ip1"}, GeocodeReqs \cup HealthReqs),
   Workload({"ip1"}, {r \in Valid(WeatherReqs) : r.query = Absent}),
   Workload({"ip1"}, (WeatherReqs \ Valid(WeatherReqs)) \cup {r \in WeatherReqs : r.query # Absent}),
   Workload({"ip1"}, UnsplashReqs \cup ClearReqs),
   Workload({"ip1", "ip2"}, HealthReqs \cup ClearReqs \cup (GeocodeReqs \ Valid(GeocodeReqs))),
   HealthyWorkload({"ip1"}, Valid(GeocodeReqs) \cup Valid(UnsplashReqs))}

(***************************************************************************)
(* Actions.                                                                *)
(***************************************************************************)
Init ==
  /\ rev \in Revisions
  /\ isProduction \in BOOLEAN
  /\ workload \in Workloads
  /\ cache = EmptyCache
  /\ hits = [ip \in Clients |-> NoHits]
  /\ inflight = <<>>
  /\ last = NoEvent
  /\ lastOk = NoOk
  /\ cleared = [k \in {} |-> "cleared"]
  /\ probe = NoProbe

(* a request arrives and runs through its middleware stack *)
Arrive(ip, req) ==
  /\ req.path # "/api/health" => hits[ip].count <= max
  /\ LET ctx == RunChain(Chain(rev, req.path), Ctx0(cache, hits), ip, req)
     IN /\ ctx.forward => Len(inflight) < MaxInflight
        /\ cache' = ctx.cache
        /\ hits' = ctx.hits
        /\ inflight' =
             IF ctx.forward
             THEN Append(inflight,
                         [req |-> req, key |-> ctx.key, patched |-> ctx.patched,
                          trace |-> ctx.trace, preAge |-> ctx.preAge])
             ELSE inflight
        /\ last' = Event(IF ctx.forward THEN "forwarded" ELSE "answered", req,
                         ctx.status, ctx.body, ctx.via, ctx.trace,
                         ctx.preCount, ctx.preAge, ctx.preBy, NoReq, "none", 0, <<>>,
                         IF ctx.key \in DOMAIN cleared THEN cleared[ctx.key] ELSE "-")
        /\ lastOk' = IF "flushAll" \in ctx.trace THEN NoOk ELSE lastOk
        /\ cleared' = IF "flushAll" \in ctx.trace
                      THEN [k \in DOMAIN cache |-> "cleared"]
                      ELSE Remove(cleared, ctx.key)
  /\ UNCHANGED <<rev, isProduction, workload, probe>>

GetHealth ==
  \E ip \in workload.clients, req \in HealthReqs \cap workload.requests : Arrive(ip, req)
PostCacheClear ==
  \E ip \in workload.clients, req \in ClearReqs \cap workload.requests : Arrive(ip, req)
GetUnsplash ==
  \E ip \in workload.clients, req \in UnsplashReqs \cap workload.requests : Arrive(ip, req)
GetGeocode ==
  \E ip \in workload.clients, req \in GeocodeReqs \cap workload.requests : Arrive(ip, req)
GetWeather ==
  \E ip \in workload.clients, req \in WeatherReqs \cap workload.requests : Arrive(ip, req)

(* the upstream call of a suspended request settles and its handler resumes *)
Reply(i, o) ==
  LET inf == inflight[i]
      r == Resume(rev, isProduction, cache, inf, o)
  IN /\ cache' = r.cache
     /\ last' = Event("replied", inf.req, r.status, r.body, r.via,
                      inf.trace \cup r.trace, 0, inf.preAge, NoReq,
                      IF "cacheSet" \in r.trace /\ inf.key \in DOMAIN cache
                      THEN cache[inf.key].by ELSE NoReq,
                      o.t, o.status, o.results, "-")
     /\ lastOk' = IF r.status = 200 /\ inf.req.path \in {"/api/geocode", "/api/weather"}
                  THEN [valid |-> TRUE, req |-> inf.req, body |-> r.body, age |-> 0]
                  ELSE lastOk
     /\ inflight' = [j \in 1..(Len(inflight) - 1) |->
                       IF j < i THEN inflight[j] ELSE inflight[j + 1]]
     /\ cleared' = [k \in DOMAIN cleared |->
                      IF k = inf.key /\ "cacheSet" \in r.trace
                      THEN "refilled" ELSE cleared[k]]
     /\ UNCHANGED <<rev, isProduction, workload, hits, probe>>

Pending(path) == {i \in 1..Len(inflight) : inflight[i].req.path = path}

UnsplashReply ==
  \E i \in Pending("/api/unsplash"), o \in Answers("/api/unsplash") : Reply(i, o)
GeocodeReply ==
  \E i \in Pending("/api/geocode"), o \in Answers("/api/geocode") : Reply(i, o)
WeatherReply ==
  \E i \in Pending("/api/weather"), o \in Answers("/api/weather") : Reply(i, o)

(* the cache's periodic check fires *)
CheckData ==
  /\ \E k \in DOMAIN cache : Expired(cache[k])
  /\ cache' = checkData(cache)
  /\ last' = NoEvent
  /\ UNCHANGED <<rev, isProduction, workload, hits, inflight, lastOk, cleared, probe>>

(* Step milliseconds pass; the periodic check (every 120 s) has deleted    *)
(* what was already expired, and a limiter window that reached windowMs    *)
(* is closed                                                               *)
Tick ==
  /\ cache' = [k \in DOMAIN checkData(cache) |-> [cache[k] EXCEPT !.age = @ + Step]]
  /\ hits' = [ip \in Clients |->
                IF hits[ip].count = 0 \/ hits[ip].age + Step >= windowMs THEN NoHits
                ELSE [hits[ip] EXCEPT !.age = @ + Step]]
  /\ lastOk' = IF lastOk.valid /\ lastOk.age + Step < stdTTL * 1000
               THEN [lastOk EXCEPT !.age = @ + Step] ELSE NoOk
  /\ last' = NoEvent
  /\ UNCHANGED <<rev, isProduction, workload, inflight, cleared, probe>>

Next ==
  \/ GetHealth
  \/ PostCacheClear
  \/ GetUnsplash
  \/ GetGeocode
  \/ GetWeather
  \/ UnsplashReply
  \/ GeocodeReply
  \/ WeatherReply
  \/ CheckData
  \/ Tick

Spec == Init /\ [][Next]_vars

InitExplicit == Init /\ rev = "explicit"
InitMiddleware == Init /\ rev = "middleware"

SpecExplicit == InitExplicit /\ [][Next]_vars
SpecMiddleware == InitMiddleware /\ [][Next]_vars

TypeOK ==
  /\ rev \in Revisions
  /\ isProduction \in BOOLEAN
  /\ workload \in Workloads
  /\ Cardinality(DOMAIN cache) <= maxKeys
  /\ Len(inflight) <= MaxInflight
  /\ \A ip \in Clients : hits[ip].count <= max + 1

(***************************************************************************)
(* Vocabulary of the properties.                                           *)
(***************************************************************************)
TTL == stdTTL * 1000

Arrival(e) == e.ev \in {"answered", "forwarded"}
Admitted(e) == Arrival(e) /\ e.via # "limiter"
FromCache(e) == e.ev = "answered" /\ e.status = 200 /\ e.req.path \in ApiPaths
Touched(e) == e.trace \cap {"cacheGet", "cacheSet", "upstreamCall"}
FailedUpstream(e) == e.ev = "replied" /\ e.otype \in {"http", "network", "errors", "throw"}

(* the logical input of a request: the search text, or the coordinates and timezone *)
LogicalInput(req) ==
  IF req.path = "/api/weather"
  THEN <<req.path, req.latitude, req.longitude, req.timezone>>
  ELSE <<req.path, req.query, Absent, Absent>>

Fields(seq) == {seq[i] : i \in 1..Len(seq)}

(* C1: a geocode or weather request that repeats, within the TTL and with  *)
(* no cache flush in between, the last such request that completed with    *)
(* 200 from upstream, is answered at once with the same body and without   *)
(* an upstream call.                                                       *)
C1_RepeatWithinTTL ==
  [][(/\ lastOk.valid
      /\ lastOk.age < TTL
      /\ Admitted(last')
      /\ last'.req = lastOk.req)
     => (/\ last'.ev = "answered"
         /\ last'.body = lastOk.body
         /\ "upstreamCall" \notin last'.trace)]_vars

(* C2: a request whose upstream call failed stores nothing in the cache,   *)
(* and no request is answered from the cache with an error body.           *)
C2_FailureNotCached ==
  /\ FailedUpstream(last) => "cacheSet" \notin last.trace
  /\ FromCache(last) => last.body.kind # "envelope"

(* C3: a cache entry is read and overwritten only by requests with the     *)
(* logical input of the request that stored it.                            *)
C3_KeySeparatesInputs ==
  /\ (Arrival(last) /\ last.preBy # NoReq)
       => LogicalInput(last.preBy) = LogicalInput(last.req)
  /\ (last.ev = "replied" /\ last.over # NoReq)
       => LogicalInput(last.over) = LogicalInput(last.req)

(* C4 as stated: no two upstream calls for one cache key are in flight at  *)
(* the same time.                                                          *)
C4_SingleFlight ==
  \A i, j \in 1..Len(inflight) : i # j => inflight[i].key # inflight[j].key

(* C4 amended: a request that finds a live entry for its key is answered   *)
(* from the cache without an upstream call, and a valid request that finds *)
(* no entry makes its own upstream call, also while another call for the   *)
(* same key is in flight.                                                  *)
C4_CollapseAfterStore ==
  /\ (Arrival(last) /\ last.preAge >= 0 /\ last.preAge <= TTL)
       => (FromCache(last) /\ "upstreamCall" \notin last.trace)
  /\ (Arrival(last) /\ "cacheGet" \in last.trace /\ last.preAge = -1)
       => (last.ev = "forwarded" /\ "upstreamCall" \in last.trace)

C4_Witness ==
  /\ last.ev = "forwarded"
  /\ Len(inflight) = 2
  /\ inflight[1].key = inflight[2].key
  /\ inflight[1].req = inflight[2].req

C7_RejectedFirst ==
  [][(last'.via = "limiter" /\ last'.req.path \in ApiPaths)
     => (/\ last'.ev = "answered"
         /\ last'.status = 429
         /\ last'.trace = {"limiter"}
         /\ cache' = cache
         /\ inflight' = inflight)]_vars

C7_Witness ==
  /\ last.via = "limiter"
  /\ last.req.path \in ApiPaths
  /\ validators(last.req) = <<>>
  /\ cache # EmptyCache

(* C8: an admitted geocode request whose query is missing or shorter than  *)
(* 2 characters, and an admitted weather request with a non-float latitude *)
(* or longitude or an empty timezone, is answered 400 with the field       *)
(* listed, without cache read or write and without upstream call.          *)
ShortQuery(req) ==
  req.path = "/api/geocode" /\ (req.query = Absent \/ Len(req.query) < 2)
BadLatitude(req) == req.path = "/api/weather" /\ req.latitude \notin FloatStrings
BadLongitude(req) == req.path = "/api/weather" /\ req.longitude \notin FloatStrings
EmptyTimezone(req) == req.path = "/api/weather" /\ req.timezone \in {Absent, ""}
Malformed(req) ==
  ShortQuery(req) \/ BadLatitude(req) \/ BadLongitude(req) \/ EmptyTimezone(req)

C9_ErrorEnvelope ==
  (last.status >= 400 /\ last.via # "limiter")
    => (/\ last.body.kind = "envelope"
        /\ last.body.error = "string"
        /\ last.body.details \in {"absent", "string"})

(* C10: after a failed upstream call the client gets 429 if the provider   *)
(* signalled rate exhaustion and 500 otherwise.                            *)
C10_UpstreamFailureStatus ==
  FailedUpstream(last)
    => last.status = (IF last.otype \in {"http", "errors"} /\ last.ostatus = 429
                      THEN 429 ELSE 500)

(***************************************************************************)
(* Responses, as the client sees them.                                     *)
(***************************************************************************)
Responded(e) == e.ev \in {"answered", "replied"}
ErrorResponse(e) == Responded(e) /\ e.status >= 400

(* the provider answered 2xx with no results: the field is missing or the  *)
(* array is empty                                                          *)
NoResults(e) ==
  /\ e.ev = "replied"
  /\ e.req.path = "/api/geocode"
  /\ e.otype = "missing" \/ (e.otype = "ok" /\ e.oresults = <<>>)

(* C11: in production no error response of the geocode, weather and         *)
(* unsplash endpoints carries a details value (message, provider error     *)
(* list or stack); details appear only outside production.                 *)
C11_NoDetailsInProduction ==
  (isProduction /\ ErrorResponse(last) /\ last.req.path \in ApiPaths)
    => last.body.details = "absent"

(* C12: a geocode request whose provider returns no results (results       *)
(* missing or empty) is answered 200 with { results: [] }, never with an    *)
(* error status.                                                           *)
C12_EmptyIsSuccess ==
  NoResults(last) => (last.status = 200 /\ last.body = GeocodeBody(<<>>))

(***************************************************************************)
(* Geocode result lists.                                                   *)
(***************************************************************************)
Triple(item) == <<item.formatted, item.lat, item.lng>>

NoDuplicates(list) ==
  \A i, j \in 1..Len(list) : (Triple(list[i]) = Triple(list[j])) => (i = j)

(* a response of /api/geocode that carries a result list *)
GeocodeList(e) ==
  Responded(e) /\ e.req.path = "/api/geocode" /\ e.body.kind \in {"geocode", "array"}

(* C13: in every result list returned by /api/geocode, freshly computed or  *)
(* served from the cache, no two elements share the same (formatted,       *)
(* latitude, longitude) triple.                                            *)
C13_NoDuplicateTriples ==
  GeocodeList(last) => NoDuplicates(last.body.results)

(* a list served from the cache that was computed from provider results    *)
(* repeating a triple                                                      *)
C13_Witness ==
  /\ GeocodeList(last)
  /\ last.ev = "answered"
  /\ last.preBy.path = "/api/geocode"
  /\ \E l \in GeoLists :
       /\ ~NoDuplicates(MapItems(l))
       /\ last.body.results = Dedupe(MapItems(l))

(***************************************************************************)
(* Functions evaluated on their own.  The server is idle; probe holds the  *)
(* function under evaluation (op), its input and, once it has run (done),  *)
(* its result.                                                             *)
(***************************************************************************)
IdleServer ==
  /\ rev = "middleware"
  /\ isProduction = FALSE
  /\ workload = Workload({}, {})
  /\ cache = EmptyCache
  /\ hits = [ip \in Clients |-> NoHits]
  /\ inflight = <<>>
  /\ last = NoEvent
  /\ lastOk = NoOk
  /\ cleared = [k \in {} |-> "cleared"]

SeqsUpTo(S, n) == UNION {[1..k -> S] : k \in 0..n}

(* bound: the length of a provider result list *)
MaxResults == 3

LondonOther == RawItem("London, UK", "40.7", "-0.12", "UTC")

ProviderItems == {London, LondonNoTz, York, LondonOther}

ProviderLists == SeqsUpTo(ProviderItems, MaxResults)

GeocodeProbes ==
  {[op |-> "geocodeResults", input |-> l, done |-> FALSE, output |-> <<>>] :
     l \in ProviderLists}

(* the geocode handler from the mapping of geoData.results to the list it  *)
(* sends                                                                   *)
GeocodeResults ==
  /\ probe.op = "geocodeResults"
  /\ ~probe.done
  /\ probe' = [probe EXCEPT !.done = TRUE, !.output = Dedupe(MapItems(probe.input))]
  /\ UNCHANGED serverVars

(* the indexes of the first occurrences of the triples of a list *)
FirstIndexes(list) ==
  {i \in 1..Len(list) : \A j \in 1..(i - 1) : Triple(list[j]) # Triple(list[i])}

(* out is the subsequence of list at these indexes *)
IsFirstOccurrences(out, list) ==
  /\ Len(out) = Cardinality(FirstIndexes(list))
  /\ \E f \in [1..Len(out) -> FirstIndexes(list)] :
       /\ \A a, b \in 1..Len(out) : (a < b) => (f[a] < f[b])
       /\ \A k \in 1..Len(out) : out[k] = list[f[k]]

(* C14: deduplication keeps exactly the first occurrence of each distinct   *)
(* (formatted, latitude, longitude) triple in first-seen order: the list   *)
(* returned is the subsequence of the mapped provider results made of the  *)
(* first occurrences.                                                      *)
C14_FirstOccurrencesInOrder ==
  (probe.op = "geocodeResults" /\ probe.done)
    => IsFirstOccurrences(probe.output, MapItems(probe.input))

(* a list whose first triple comes back after a different one, with a      *)
(* different timezone                                                      *)
C14_Witness ==
  /\ probe.op = "geocodeResults"
  /\ probe.done
  /\ Len(probe.input) = 3
  /\ Triple(probe.input[1]) = Triple(probe.input[3])
  /\ probe.input[1] # probe.input[3]
  /\ Triple(probe.input[1]) # Triple(probe.input[2])
  /\ Len(probe.output) = 2

(* a provider result without timezone annotation *)
NoTimezone(item) == item.tzname = Absent

(* C15: when a provider result has no timezone annotation the geocode       *)
(* request still succeeds with all results, that result's timezone is the  *)
(* empty string, and every returned result has a string timezone.          *)
C15_MissingTimezoneIsEmptyString ==
  (/\ last.ev = "replied"
   /\ last.req.path = "/api/geocode"
   /\ last.otype = "ok"
   /\ \E i \in 1..Len(last.oresults) : NoTimezone(last.oresults[i]))
    => /\ last.status = 200
       /\ \A i \in 1..Len(last.oresults) :
            \E k \in 1..Len(last.body.results) :
              Triple(last.body.results[k]) = Triple(last.oresults[i])
       /\ \A k \in 1..Len(last.body.results) :
            /\ last.body.results[k].timezone # Absent
            /\ \A i \in FirstIndexes(last.oresults) :
                 (Triple(last.oresults[i]) = Triple(last.body.results[k])
                    /\ NoTimezone(last.oresults[i]))
                   => last.body.results[k].timezone = ""

(* the key under which the handler of a request stores its result *)
KeyOf(e) == cacheKey(rev, e.req)

(* C16: when the cache holds its maximum number of live entries, storing    *)
(* the result of a successful upstream fetch for a new key evicts an       *)
(* existing entry and stores the new one, the client gets the upstream     *)
(* result with a success status, and the number of live entries never      *)
(* exceeds the maximum.                                                    *)
C16_EvictsWhenFull ==
  [][(/\ Cardinality(DOMAIN cache) = maxKeys
      /\ \A k \in DOMAIN cache : ~Expired(cache[k])
      /\ last'.ev = "replied"
      /\ last'.otype = "ok"
      /\ last'.oresults # <<>> \/ last'.req.path # "/api/geocode"
      /\ KeyOf(last') \notin DOMAIN cache)
       => (/\ last'.status = 200
           /\ last'.body = SuccessBody(last'.req.path,
                                       Outcome("ok", 200, last'.oresults, last'.body.data))
           /\ KeyOf(last') \in DOMAIN cache'
           /\ Cardinality(DOMAIN cache') <= maxKeys)]_vars

(* the response of POST /api/cache/clear *)
Cleared(e) == e.ev = "answered" /\ e.via = "cacheClear"

(* the first lookup of a key that the latest clear removed *)
FirstSinceClear(e) == Arrival(e) /\ e.sinceClear # "-"

weatherRequest(suggestion) ==
  Req("/api/weather", Absent, Interp(suggestion.lat), Interp(suggestion.lng),
      Interp(suggestion.timezone))

(* C28: every result of /api/geocode is usable for the weather lookup: its  *)
(* geometry.lat, geometry.lng and timezone, sent to /api/weather the way   *)
(* App.fetchWeather sends them, pass the weather validation (no 400).      *)
C28_ResultsPassWeatherValidation ==
  (probe.op = "geocodeResults" /\ probe.done)
    => \A i \in 1..Len(probe.output) :
         validators(weatherRequest(probe.output[i])) = <<>>

(***************************************************************************)
(* HourlyForecastCard.  Times are minutes on the clock of the location;    *)
(* an entry of hourlyData.time is the start of an hour.  Two instants have *)
(* the same year, month, day and hour when they fall in the same hour.     *)
(***************************************************************************)
(* bounds: the hours on the clock, the length of hourlyData.time *)
MaxHour == 5
MaxEntries == 19

initialNumHours == 12
numHoursOptions == {12, 18, 24, 30, 36, 42, 48}

Clock == {h * 60 + m : h \in 0..MaxHour, m \in {0, 30}}

(* hourlyData.time: consecutive hours from some first hour *)
HourlyTimes ==
  {[i \in 1..n |-> (a + i - 1) * 60] : a \in 0..MaxHour, n \in 0..MaxEntries}

getHours(t) == t \div 60

(* the loop over hourlyData.time from index i (0-based): the index after   *)
(* the entry of the current hour, 0 when there is none                     *)
RECURSIVE startIndexFrom(_, _, _)
startIndexFrom(time, now, i) ==
  IF i >= Len(time) THEN 0
  ELSE IF getHours(time[i + 1]) = getHours(now) THEN i + 1
  ELSE startIndexFrom(time, now, i + 1)

(* array.slice(from, to), 0-based, to exclusive *)
slice(array, from, to) ==
  LET lo == IF from > Len(array) THEN Len(array) ELSE from
      hi == IF to > Len(array) THEN Len(array) ELSE to
  IN [k \in 1..(IF hi > lo THEN hi - lo ELSE 0) |-> array[lo + k]]

HourlyProbes ==
  {[op |-> "HourlyForecastCard", time |-> t, visibility |-> [i \in 1..Len(t) |-> 1000 * i],
    now |-> n, numHours |-> initialNumHours,
    rendered |-> FALSE, startIndex |-> 0, data |-> <<>>] :
     t \in HourlyTimes, n \in Clock}

(* mutant: the fields are read at the index within the window *)
hourlyEntry_WindowIndex(p, startIndex, time, index) ==
  [time |-> time, visibility |-> p.visibility[index + 1]]

(* the entry mapped from the element time at index (0-based) of the slice: *)
(* its fields are read at realIndex                                        *)
hourlyEntry(p, startIndex, time, index) ==
  LET realIndex == startIndex + index
  IN [time |-> time, visibility |-> p.visibility[realIndex + 1]]

(* one render of the component at local time now *)
render(p, now) ==
  LET startIndex == startIndexFrom(p.time, now, 0)
      window == slice(p.time, startIndex, startIndex + p.numHours)
  IN [p EXCEPT !.now = now, !.rendered = TRUE, !.startIndex = startIndex,
               !.data = [k \in 1..Len(window) |->
                           hourlyEntry(p, startIndex, window[k], k - 1)]]

RenderHourly ==
  /\ probe.op = "HourlyForecastCard"
  /\ ~probe.rendered
  /\ probe' = render(probe, probe.now)
  /\ UNCHANGED serverVars

(* the user picks another number of hours; the component renders again,    *)
(* at a time that is not earlier                                           *)
SelectNumHours ==
  /\ probe.op = "HourlyForecastCard"
  /\ probe.rendered
  /\ \E n \in numHoursOptions \ {probe.numHours}, now \in {t \in Clock : t >= probe.now} :
       probe' = render([probe EXCEPT !.numHours = n], now)
  /\ UNCHANGED serverVars

(* C18: the window displayed by HourlyForecastCard starts at the first      *)
(* hourly entry strictly after the current local time of the location,     *)
(* whatever the relation between the current time and the hourly array,    *)
(* also when no entry falls in the current hour.                           *)
C18_WindowStartsAfterNow ==
  (probe.op = "HourlyForecastCard" /\ probe.rendered)
    => /\ \A k \in 1..Len(probe.data) : probe.data[k].time > probe.now
       /\ \A i \in 1..Len(probe.time) :
            (probe.time[i] > probe.now) => (probe.startIndex < i)

Min(a, b) == IF a < b THEN a ELSE b

(* C24 (amended): HourlyForecastCard displays the numHours entries (numHours *)
(* one of 12, 18, ..., 48, initially 12) from the window start, or all the *)
(* entries from the window start when fewer than numHours remain; they are *)
(* consecutive entries of the hourly array, each built from the fields at  *)
(* one and the same array index.                                           *)
C24_WindowOfNumHours ==
  (probe.op = "HourlyForecastCard" /\ probe.rendered)
    => /\ probe.numHours \in numHoursOptions
       /\ Len(probe.data) = Min(probe.numHours, Len(probe.time) - probe.startIndex)
       /\ \A k \in 1..Len(probe.data) :
            /\ probe.data[k].time = probe.time[probe.startIndex + k]
            /\ probe.data[k].visibility = probe.visibility[probe.startIndex + k]

(* C24 as stated: exactly numHours entries are displayed. *)
C24_ExactlyNumHours ==
  (probe.op = "HourlyForecastCard" /\ probe.rendered)
    => /\ probe.numHours \in numHoursOptions
       /\ Len(probe.data) = probe.numHours
       /\ \A k \in 1..Len(probe.data) :
            /\ probe.data[k].time = probe.time[probe.startIndex + k]
            /\ probe.data[k].visibility = probe.visibility[probe.startIndex + k]

(* a window of twelve entries that starts after the entry of the current   *)
(* hour                                                                    *)
C24_Witness ==
  /\ probe.op = "HourlyForecastCard"
  /\ probe.rendered
  /\ probe.startIndex = 1
  /\ probe.numHours = initialNumHours
  /\ Len(probe.data) = initialNumHours
  /\ probe.data[initialNumHours].visibility = probe.visibility[initialNumHours + 1]

(***************************************************************************)
(* WeatherValue, as HourlyForecastCard uses it for Visibility.  A figure   *)
(* is a fraction [num, den]; the component prints Math.round of it and the *)
(* unit.  convertVisibilityToKm and convertVisibilityToMiles are imported  *)
(* from utils/helpers, whose source does not hold them: they are the       *)
(* linear transforms metres -> kilometres (1000 m) and metres -> miles     *)
(* (1609.344 m).                                                           *)
(***************************************************************************)
Visibilities == {0, 400, 1000, 1609, 10000, 24140}

convertVisibilityToKm(value) == [num |-> value, den |-> 1000]

convertVisibilityToMiles(value) == [num |-> value * 1000, den |-> 1609344]

(* Math.round of a fraction that is not negative *)
round(x) == (2 * x.num + x.den) \div (2 * x.den)

WeatherValue(value, metricUnit, imperialUnit, convertFn, isMetric) ==
  LET displayValue == IF isMetric THEN [num |-> value, den |-> 1]
                      ELSE IF convertFn = "convertVisibilityToKm"
                        THEN convertVisibilityToKm(value)
                      ELSE IF convertFn = "convertVisibilityToMiles"
                        THEN convertVisibilityToMiles(value)
                      ELSE [num |-> value, den |-> 1]
      unit == IF isMetric THEN metricUnit ELSE imperialUnit
  IN [number |-> round(displayValue), unit |-> unit]

VisibilityProbes ==
  {[op |-> "Visibility", item |-> [visibility |-> v], isMetric |-> m, shown |-> <<>>] :
     v \in Visibilities, m \in BOOLEAN}

(* the Visibility line of an hourly entry is rendered *)
RenderVisibility ==
  /\ probe.op = "Visibility"
  /\ probe.shown = <<>>
  /\ probe' = [probe EXCEPT !.shown =
       <<WeatherValue(probe.item.visibility, "km", "mi",
                      IF probe.isMetric THEN "convertVisibilityToKm"
                                        ELSE "convertVisibilityToMiles",
                      probe.isMetric)>>]
  /\ UNCHANGED serverVars

(* the unit is toggled: the line is rendered again *)
ToggleVisibility ==
  /\ probe.op = "Visibility"
  /\ probe.shown # <<>>
  /\ probe' = [probe EXCEPT !.isMetric = ~@, !.shown = <<>>]
  /\ UNCHANGED serverVars

(* metres in the unit printed *)
InUnit(metres, unit) ==
  IF unit = "km" THEN [num |-> metres, den |-> 1000]
                 ELSE [num |-> metres * 1000, den |-> 1609344]

(* C23: the Visibility figure of HourlyForecastCard is the upstream value  *)
(* in metres converted to the unit printed next to it, kilometres when     *)
(* isMetric and miles otherwise: the number and the unit label agree.      *)
C23_VisibilityInUnitShown ==
  (probe.op = "Visibility" /\ probe.shown # <<>>)
    => /\ probe.shown[1].unit = (IF probe.isMetric THEN "km" ELSE "mi")
       /\ probe.shown[1].number
            = round(InUnit(probe.item.visibility, probe.shown[1].unit))

(***************************************************************************)
(* helpers.js: getIconCode.  The file holds two revisions of the function: *)
(* the earlier one builds the table on every call, the later one keeps the *)
(* table and a memo (iconCodeCache) at module level.                       *)
(***************************************************************************)
(* bound: the number of calls in a run *)
MaxCalls == 2

unknownIcon == 999

Icon(day, night) == [day |-> day, night |-> night]

wmoToQWeather ==
  (0 :> Icon(100, 150)) @@ (1 :> Icon(101, 151)) @@ (2 :> Icon(103, 153)) @@
  (3 :> Icon(104, 104)) @@ (45 :> Icon(501, 501)) @@ (48 :> Icon(501, 501)) @@
  (51 :> Icon(305, 305)) @@ (53 :> Icon(306, 306)) @@ (55 :> Icon(307, 307)) @@
  (56 :> Icon(310, 310)) @@ (57 :> Icon(311, 311)) @@ (61 :> Icon(305, 305)) @@
  (63 :> Icon(306, 306)) @@ (65 :> Icon(307, 307)) @@ (66 :> Icon(310, 310)) @@
  (67 :> Icon(311, 311)) @@ (71 :> Icon(400, 400)) @@ (73 :> Icon(401, 401)) @@
  (75 :> Icon(402, 402)) @@ (77 :> Icon(403, 403)) @@ (80 :> Icon(300, 300)) @@
  (81 :> Icon(301, 301)) @@ (82 :> Icon(302, 302)) @@ (85 :> Icon(404, 404)) @@
  (86 :> Icon(405, 405)) @@ (95 :> Icon(302, 302)) @@ (96 :> Icon(308, 308)) @@
  (99 :> Icon(308, 308))

(* weather codes the table does not know *)
UnmappedCodes == {4, 100}

WeatherCodes == DOMAIN wmoToQWeather \cup UnmappedCodes

(* mutant: the memo is keyed by the weather code alone *)
iconCacheKey_CodeOnly(code, isDay) == <<code, 1>>

(* `${code}_${isDay}` *)
iconCacheKey(code, isDay) == <<code, isDay>>

(* the earlier revision: wmoToQWeather[code] || 999 *)
getIconCodeEarlier(code, isDay) ==
  IF code \in DOMAIN wmoToQWeather
  THEN IF isDay # 0 THEN wmoToQWeather[code].day ELSE wmoToQWeather[code].night
  ELSE unknownIcon

(* the later revision: [result, iconCodeCache after the call] *)
getIconCode(iconCodeCache, code, isDay) ==
  LET memoKey == iconCacheKey(code, isDay)
      result == IF code \in DOMAIN wmoToQWeather
                THEN IF isDay # 0 THEN wmoToQWeather[code].day
                     ELSE wmoToQWeather[code].night
                ELSE unknownIcon
  IN IF memoKey \in DOMAIN iconCodeCache /\ iconCodeCache[memoKey] # 0
     THEN [result |-> iconCodeCache[memoKey], iconCodeCache |-> iconCodeCache]
     ELSE [result |-> result, iconCodeCache |-> (memoKey :> result) @@ iconCodeCache]

(* returned remembers, for each pair of arguments, what the first call     *)
(* with them returned                                                      *)
IconProbes ==
  {[op |-> "getIconCode", helpers |-> h, iconCodeCache |-> <<>>, calls |-> 0,
    code |-> 0, isDay |-> 1, result |-> 0, returned |-> <<>>] :
     h \in {"earlier", "memoized"}}

GetIconCode ==
  /\ probe.op = "getIconCode"
  /\ probe.calls < MaxCalls
  /\ \E code \in WeatherCodes, isDay \in {0, 1} :
       LET r == IF probe.helpers = "earlier"
                THEN [result |-> getIconCodeEarlier(code, isDay),
                      iconCodeCache |-> probe.iconCodeCache]
                ELSE getIconCode(probe.iconCodeCache, code, isDay)
       IN probe' = [probe EXCEPT
                      !.calls = @ + 1, !.code = code, !.isDay = isDay,
                      !.result = r.result, !.iconCodeCache = r.iconCodeCache,
                      !.returned = IF <<code, isDay>> \in DOMAIN probe.returned
                                   THEN probe.returned
                                   ELSE (<<code, isDay>> :> r.result) @@ probe.returned]
  /\ UNCHANGED serverVars

(* the weather codes with a day and a night icon *)
DayNightCodes == {0, 1, 2}

(* C19: getIconCode returns different codes for day and night for weather   *)
(* code 0 (and 1 and 2), the same code for day and night for every other   *)
(* mapped weather code, and 999 for every unmapped weather code whatever   *)
(* isDay is and whatever was called before.                                *)
C19_DayNightIcons ==
  (probe.op = "getIconCode" /\ probe.calls > 0)
    => /\ probe.result = probe.returned[<<probe.code, probe.isDay>>]
       /\ probe.code \notin DOMAIN wmoToQWeather => probe.result = 999
       /\ probe.code \in DOMAIN wmoToQWeather => probe.result # 999
       /\ <<probe.code, 1 - probe.isDay>> \in DOMAIN probe.returned
            => ((probe.result # probe.returned[<<probe.code, 1 - probe.isDay>>])
                  <=> (probe.code \in DayNightCodes))

(* clear sky asked for the night after it was asked for the day *)
C19_Witness ==
  /\ probe.op = "getIconCode"
  /\ probe.helpers = "memoized"
  /\ probe.calls = 2
  /\ probe.code = 0
  /\ probe.isDay = 0
  /\ <<0, 1>> \in DOMAIN probe.returned
  /\ probe.result # probe.returned[<<0, 1>>]

(***************************************************************************)
(* helpers.js: formatDuration.  A text is the sequence of its characters.  *)
(***************************************************************************)
(* bound: the longest duration, in seconds *)
MaxSeconds == 7325

decimalDigits == <<"0", "1", "2", "3", "4", "5", "6", "7", "8", "9">>

(* the decimal numeral of a natural number, as a template literal prints it *)
RECURSIVE numeral(_)
numeral(n) ==
  IF n < 10 THEN <<decimalDigits[n + 1]>>
  ELSE numeral(n \div 10) \o <<decimalDigits[(n % 10) + 1]>>

RECURSIVE trimStart(_)
trimStart(text) ==
  IF text # <<>> /\ Head(text) = " " THEN trimStart(Tail(text)) ELSE text

RECURSIVE trimEnd(_)
trimEnd(text) ==
  IF text # <<>> /\ text[Len(text)] = " "
  THEN trimEnd(SubSeq(text, 1, Len(text) - 1)) ELSE text

(* mutant: the text is returned as it was built *)
trim_Nothing(text) == text

(* String.prototype.trim *)
trim(text) == trimEnd(trimStart(text))

formatDuration(durationInSeconds) ==
  LET hours == durationInSeconds \div 3600
      minutes == (durationInSeconds % 3600) \div 60
      seconds == durationInSeconds % 60
      withHours == IF hours > 0 THEN numeral(hours) \o <<"h", " ">> ELSE <<>>
      withMinutes == IF minutes > 0 THEN withHours \o numeral(minutes) \o <<"m", " ">>
                     ELSE withHours
      formattedDuration == IF seconds > 0 THEN withMinutes \o numeral(seconds) \o <<"s">>
                           ELSE withMinutes
  IN trim(formattedDuration)

DurationProbes ==
  {[op |-> "formatDuration", input |-> d, done |-> FALSE, output |-> <<>>] :
     d \in 0..MaxSeconds}

FormatDuration ==
  /\ probe.op = "formatDuration"
  /\ ~probe.done
  /\ probe' = [probe EXCEPT !.done = TRUE, !.output = formatDuration(probe.input)]
  /\ UNCHANGED serverVars

(* the components of a text: the maximal runs without a space *)
RECURSIVE Words(_, _)
Words(text, word) ==
  IF text = <<>> THEN (IF word = <<>> THEN <<>> ELSE <<word>>)
  ELSE IF Head(text) = " "
       THEN <<word>> \o Words(Tail(text), <<>>)
       ELSE Words(Tail(text), Append(word, Head(text)))

(* the number a component stands for and its unit, its last character *)
RECURSIVE ValueOf(_)
ValueOf(digits) ==
  IF digits = <<>> THEN 0
  ELSE 10 * ValueOf(SubSeq(digits, 1, Len(digits) - 1))
         + ((CHOOSE k \in 1..10 : decimalDigits[k] = digits[Len(digits)]) - 1)

IsComponent(word) ==
  /\ Len(word) >= 2
  /\ word[Len(word)] \in {"h", "m", "s"}
  /\ \A k \in 1..(Len(word) - 1) : \E c \in 1..10 : decimalDigits[c] = word[k]
  /\ word[1] # "0"

Amount(word) == ValueOf(SubSeq(word, 1, Len(word) - 1))
Unit(word) == word[Len(word)]
SecondsOf(word) ==
  Amount(word) * (CASE Unit(word) = "h" -> 3600 [] Unit(word) = "m" -> 60 [] OTHER -> 1)

UnitRank(u) == CASE u = "h" -> 1 [] u = "m" -> 2 [] OTHER -> 3

RECURSIVE SumSeconds(_)
SumSeconds(words) ==
  IF words = <<>> THEN 0 ELSE SecondsOf(Head(words)) + SumSeconds(Tail(words))

(* C20: formatDuration(3661) is "1h 1m 1s" and formatDuration(45) is "45s";  *)
(* for every non-negative integer d the result lists h hours, m minutes    *)
(* and s seconds with h*3600 + m*60 + s = d, m < 60 and s < 60, in that    *)
(* order, leaves out exactly the components that are zero, and has no      *)
(* leading or trailing space.                                              *)
C20_FormatDuration ==
  (probe.op = "formatDuration" /\ probe.done)
    => LET out == probe.output
           words == Words(out, <<>>)
       IN /\ probe.input = 3661 =>
               out = <<"1", "h", " ", "1", "m", " ", "1", "s">>
          /\ probe.input = 45 => out = <<"4", "5", "s">>
          /\ \A k \in 1..Len(words) : IsComponent(words[k]) /\ Amount(words[k]) > 0
          /\ \A a, b \in 1..Len(words) :
               (a < b) => (UnitRank(Unit(words[a])) < UnitRank(Unit(words[b])))
          /\ \A k \in 1..Len(words) :
               Unit(words[k]) \in {"m", "s"} => Amount(words[k]) < 60
          /\ SumSeconds(words) = probe.input
          /\ out # <<>> => (out[1] # " " /\ out[Len(out)] # " ")

(* a whole number of hours: the text was built with a trailing space *)
C20_Witness ==
  /\ probe.op = "formatDuration"
  /\ probe.done
  /\ probe.input = 3600
  /\ probe.output = <<"1", "h">>

(***************************************************************************)
(* The specification of the parts evaluated on their own.                  *)
(***************************************************************************)
InitParts ==
  /\ IdleServer
  /\ probe \in GeocodeProbes \cup HourlyProbes \cup VisibilityProbes
                 \cup IconProbes \cup DurationProbes

NextParts ==
  \/ GeocodeResults
  \/ RenderHourly
  \/ SelectNumHours
  \/ RenderVisibility
  \/ ToggleVisibility
  \/ GetIconCode
  \/ FormatDuration

SpecParts == InitParts /\ [][NextParts]_vars

(* C30 (amended): every endpoint of the server except GET /api/health is    *)
(* behind the fixed-window limiter: a request to POST /api/cache/clear     *)
(* counts toward the client's budget and is answered 429 once the budget   *)
(* is used up, like the requests to /api/geocode, /api/weather and         *)
(* /api/unsplash, and so does a request answered from the cache; a request *)
(* to GET /api/health is neither counted nor answered 429.                 *)
C30_AllButHealthLimited ==
  /\ (Arrival(last) /\ last.req.path # "/api/health")
       => /\ "limiter" \in last.trace
          /\ (last.preCount >= max) <=> (last.via = "limiter" /\ last.status = 429)
  /\ (Arrival(last) /\ last.req.path = "/api/health")
       => /\ "limiter" \notin last.trace
          /\ last.status = 200

(* C30 as stated: every endpoint is behind the limiter, GET /api/health    *)
(* too.                                                                    *)
C30_EveryEndpointLimited ==
  Arrival(last)
    => /\ "limiter" \in last.trace
       /\ (last.preCount >= max) <=> (last.via = "limiter" /\ last.status = 429)

(* a request answered from the cache was counted by the limiter, after     *)
(* the cache was cleared by a counted request                              *)
C30_Witness ==
  /\ FromCache(last)
  /\ "limiter" \in last.trace
  /\ last.preCount = max - 1

(***************************************************************************)
(* The frontend's stateful parts, each run on its own with the server      *)
(* idle.  Time advances in ticks.                                          *)
(*                                                                         *)
(* useDebounce(value, delay).  The effect of a render runs after the       *)
(* render is committed: it clears the timer of the previous effect and     *)
(* sets a new one.  A timer is [id, value, left, age, replaced]: left the  *)
(* ticks until it is due, age the ticks since it was set, replaced whether *)
(* the input changed before it was due.  fired holds the timer whose       *)
(* callback ran in the last step.                                          *)
(***************************************************************************)
(* bounds: the changes of the input or the delay in a run; the longest     *)
(* delay, in ticks                                                         *)
MaxChanges == 3
MaxDelay == 2

Terms == {"", "lon", "lond"}

DebounceProbes ==
  {[op |-> "useDebounce", value |-> v, delay |-> d, debouncedValue |-> v,
    effect |-> TRUE, timers |-> {}, handler |-> 0, nextId |-> 1,
    had |-> {v}, changes |-> 0, fired |-> <<>>] :
     v \in Terms, d \in 1..MaxDelay}

(* mutant: the cleanup clears nothing *)
clearTimeout_Nothing(timers, handler) == timers

clearTimeout(timers, handler) == {t \in timers : t.id # handler}

(* the input changes: the component renders again with the new value *)
DebounceValue ==
  /\ probe.op = "useDebounce"
  /\ ~probe.effect
  /\ probe.changes < MaxChanges
  /\ \E v \in Terms \ {probe.value} :
       probe' = [probe EXCEPT
                   !.value = v, !.effect = TRUE, !.had = @ \cup {v},
                   !.changes = @ + 1, !.fired = <<>>,
                   !.timers = {[t EXCEPT !.replaced = @ \/ (t.left > 0)] : t \in @}]
  /\ UNCHANGED serverVars

(* the delay changes *)
DebounceDelay ==
  /\ probe.op = "useDebounce"
  /\ ~probe.effect
  /\ probe.changes < MaxChanges
  /\ \E d \in (1..MaxDelay) \ {probe.delay} :
       probe' = [probe EXCEPT !.delay = d, !.effect = TRUE, !.changes = @ + 1,
                              !.fired = <<>>]
  /\ UNCHANGED serverVars

(* useEffect(..., [value, delay]): cleanup of the previous effect, then    *)
(* setTimeout(() => setDebouncedValue(value), delay)                       *)
DebounceEffect ==
  /\ probe.op = "useDebounce"
  /\ probe.effect
  /\ probe' = [probe EXCEPT
                 !.effect = FALSE, !.handler = probe.nextId, !.nextId = @ + 1,
                 !.fired = <<>>,
                 !.timers = clearTimeout(@, probe.handler)
                              \cup {[id |-> probe.nextId, value |-> probe.value,
                                     left |-> probe.delay, age |-> 0,
                                     delay |-> probe.delay, replaced |-> FALSE]}]
  /\ UNCHANGED serverVars

(* a timer that is due runs its callback: setDebouncedValue(value) *)
DebounceFire ==
  /\ probe.op = "useDebounce"
  /\ \E t \in probe.timers :
       /\ t.left = 0
       /\ probe' = [probe EXCEPT !.debouncedValue = t.value, !.timers = @ \ {t},
                                 !.fired = <<t>>]
  /\ UNCHANGED serverVars

(* a tick passes; due timers and pending effects have run *)
DebounceTick ==
  /\ probe.op = "useDebounce"
  /\ ~probe.effect
  /\ probe.timers # {}
  /\ \A t \in probe.timers : t.left > 0
  /\ probe' = [probe EXCEPT
                 !.fired = <<>>,
                 !.timers = {[t EXCEPT !.left = @ - 1, !.age = @ + 1] : t \in @}]
  /\ UNCHANGED serverVars

(* C21: the debounced value only takes values the input had; it changes to  *)
(* an input v only after the input stayed v for the full delay; a change   *)
(* of the input or of the delay within the delay cancels the pending       *)
(* update, so at most one timer is pending and an input replaced before    *)
(* the delay elapsed never becomes the debounced value.                    *)
C21_Debounced ==
  probe.op = "useDebounce"
    => /\ probe.debouncedValue \in probe.had
       /\ Cardinality(probe.timers) <= 1
       /\ probe.fired # <<>>
            => /\ probe.debouncedValue = probe.fired[1].value
               /\ ~probe.fired[1].replaced
               /\ probe.fired[1].age >= probe.fired[1].delay

(* the input changed twice within the delay, then rested: only the last    *)
(* value became the debounced value                                        *)
C21_Witness ==
  /\ probe.op = "useDebounce"
  /\ probe.fired # <<>>
  /\ probe.changes >= 2
  /\ Cardinality(probe.had) = 3
  /\ probe.debouncedValue = probe.value
  /\ probe.fired[1].id = 3

(***************************************************************************)
(* Searchbar (the later revision, with searchTerm a prop).  A user event   *)
(* runs its handler, the render it causes and the effects of that render   *)
(* in one step.  The debounce timer of useDebounce is pending (<<v>>) or   *)
(* not (<<>>); it runs when the input has rested for the delay.  A geocode *)
(* request is [id, term]; suggestions is <<>> or <<term>>, the list the    *)
(* server returned for term.  Ghosts: selected (a suggestion was selected  *)
(* and the input has not changed since), issued (the id of the last        *)
(* request issued), from (the id of the request whose response set the     *)
(* suggestions), applied (the greatest id of a response that set them).    *)
(***************************************************************************)
(* bound: the user's events in a run *)
MaxEvents == 3

(* the formatted name of the suggestion the user selects *)
Formatted == "London"

SearchbarProbes ==
  {[op |-> "Searchbar", searchTerm |-> "", debouncedSearchTerm |-> "",
    timer |-> <<"">>, suppressSuggestions |-> FALSE, suggestions |-> <<>>,
    showSuggestions |-> FALSE, requests |-> {}, issued |-> 0, from |-> 0,
    applied |-> 0, selected |-> FALSE, fetchWeather |-> <<>>, events |-> 0]}

(* the dropdown is rendered *)
dropdown(p) == p.showSuggestions /\ p.suggestions # <<>>

(* the effect on [debouncedSearchTerm, suppressSuggestions] *)
fetchSuggestions(p) ==
  IF p.suppressSuggestions
    THEN [p EXCEPT !.suggestions = <<>>, !.showSuggestions = FALSE]
    ELSE IF Len(p.debouncedSearchTerm) > 2
      THEN [p EXCEPT !.requests = @ \cup {[id |-> p.issued + 1, term |-> p.debouncedSearchTerm]},
                     !.issued = @ + 1]
      ELSE [p EXCEPT !.suggestions = <<>>, !.showSuggestions = FALSE]

(* the effects of the render that takes the state p to q: useDebounce's    *)
(* when searchTerm changed, fetchSuggestions when one of its dependencies  *)
(* changed                                                                 *)
effects(p, q) ==
  LET debounced == IF q.searchTerm # p.searchTerm
                     THEN [q EXCEPT !.timer = <<q.searchTerm>>]
                     ELSE q
  IN  IF \/ q.debouncedSearchTerm # p.debouncedSearchTerm
         \/ q.suppressSuggestions # p.suppressSuggestions
        THEN fetchSuggestions(debounced)
        ELSE debounced

handleInputChange ==
  /\ probe.op = "Searchbar"
  /\ probe.events < MaxEvents
  /\ \E value \in Terms \ {probe.searchTerm} :
       probe' = effects(probe, [probe EXCEPT
                  !.searchTerm = value, !.suppressSuggestions = FALSE,
                  !.showSuggestions = TRUE, !.selected = FALSE,
                  !.events = @ + 1])
  /\ UNCHANGED serverVars

handleSuggestionMouseDown ==
  /\ probe.op = "Searchbar"
  /\ probe.events < MaxEvents
  /\ dropdown(probe)
  /\ probe' = effects(probe, [probe EXCEPT
                !.searchTerm = Formatted, !.suppressSuggestions = TRUE,
                !.suggestions = <<>>, !.showSuggestions = FALSE,
                !.selected = TRUE, !.fetchWeather = <<Formatted>>,
                !.events = @ + 1])
  /\ UNCHANGED serverVars

handleSubmit ==
  /\ probe.op = "Searchbar"
  /\ probe.events < MaxEvents
  /\ probe' = IF probe.searchTerm # ""
                THEN effects(probe, [probe EXCEPT
                       !.suggestions = <<>>, !.showSuggestions = FALSE,
                       !.fetchWeather = <<probe.searchTerm>>, !.events = @ + 1])
                ELSE [probe EXCEPT !.events = @ + 1]
  /\ UNCHANGED serverVars

handleClickOutside ==
  /\ probe.op = "Searchbar"
  /\ probe.events < MaxEvents
  /\ probe' = effects(probe, [probe EXCEPT !.showSuggestions = FALSE,
                                           !.events = @ + 1])
  /\ UNCHANGED serverVars

(* the debounce timer runs: setDebouncedValue(value) *)
SearchbarDebounce ==
  /\ probe.op = "Searchbar"
  /\ probe.timer # <<>>
  /\ probe' = effects(probe, [probe EXCEPT !.debouncedSearchTerm = probe.timer[1],
                                           !.timer = <<>>])
  /\ UNCHANGED serverVars

(* a geocode request settles: with results, with none, or with an error *)
SearchbarGeocode ==
  /\ probe.op = "Searchbar"
  /\ \E r \in probe.requests, outcome \in {"results", "empty", "error"} :
       LET settled == [probe EXCEPT !.requests = @ \ {r}]
       IN  probe' =
             CASE outcome = "results" ->
                    effects(probe, [settled EXCEPT
                      !.suggestions = <<r.term>>, !.showSuggestions = TRUE,
                      !.from = r.id,
                      !.applied = IF r.id > @ THEN r.id ELSE @])
               [] outcome = "empty" ->
                    effects(probe, [settled EXCEPT
                      !.suggestions = <<>>, !.showSuggestions = TRUE])
               [] OTHER -> settled
  /\ UNCHANGED serverVars

(* C22: after a suggestion is selected the suggestion list stays empty and  *)
(* the dropdown hidden until the user next changes the input, also when a  *)
(* geocode request was in flight at the selection.                         *)
C22_SelectionHidesSuggestions ==
  (probe.op = "Searchbar" /\ probe.selected)
    => probe.suggestions = <<>> /\ ~dropdown(probe)

(* C25: the suggestions belong to the most recent debounced term a geocode *)
(* request was issued for: the response that set them is the newest one    *)
(* that arrived with results, never an older one that arrived after it.    *)
C25_SuggestionsOfLatestTerm ==
  (probe.op = "Searchbar" /\ probe.suggestions # <<>>)
    => probe.from = probe.applied

(***************************************************************************)
(* App.  fetchWeather(location) is an async function: the part up to its   *)
(* first await runs with the event that calls it, and each continuation    *)
(* runs when its response arrives; the state updates of one continuation   *)
(* are rendered together.  A call is [id, location, stage]; weatherData is *)
(* <<>> (null) or <<[location, call]>>, the response of that call.         *)
(* CurrentWeatherCard is mounted while the cards are rendered; its effect  *)
(* on [weatherData, locationName] requests an image.  requests counts the  *)
(* requests issued.  Ghosts: event (the last step), newestOk (the location *)
(* of the most recently started call among those that succeeded).          *)
(***************************************************************************)
(* bound: the calls of fetchWeather in a run *)
MaxFetches == 2

Locations == {"London", "York"}

AppProbes ==
  {[op |-> "App", weatherData |-> <<>>, locationName |-> "", isMetric |-> FALSE,
    searchTerm |-> "", loading |-> FALSE, error |-> <<>>,
    calls |-> {}, started |-> 0,
    requests |-> [geocode |-> 0, weather |-> 0, unsplash |-> 0],
    event |-> "none", newestOk |-> [id |-> 0, location |-> ""]]}

(* the weather cards are rendered *)
cards(p) == ~p.loading /\ p.error = <<>> /\ p.weatherData # <<>>

(* mutant: the image is requested again when the units change *)
imageDeps_WithUnits(p) == <<p.weatherData, p.locationName, p.isMetric>>

(* the dependencies of CurrentWeatherCard's image effect *)
imageDeps(p) == <<p.weatherData, p.locationName>>

(* the render that takes the state p to q: CurrentWeatherCard's effect     *)
(* runs when the card is mounted and when its dependencies change          *)
appEffects(p, q) ==
  IF cards(q) /\ (~cards(p) \/ imageDeps(q) # imageDeps(p))
    THEN [q EXCEPT !.requests.unsplash = @ + 1]
    ELSE q

(* fetchWeather(location) up to its first await *)
fetchWeather(p, location, byName) ==
  [p EXCEPT !.loading = TRUE, !.error = <<>>, !.started = @ + 1,
            !.calls = @ \cup {[id |-> p.started + 1, location |-> location,
                               stage |-> IF byName THEN "geocode" ELSE "weather"]},
            !.requests = IF byName THEN [@ EXCEPT !.geocode = @ + 1]
                                     ELSE [@ EXCEPT !.weather = @ + 1]]

(* the user types in the search bar: setSearchTerm *)
AppSetSearchTerm ==
  /\ probe.op = "App"
  /\ \E value \in (Locations \cup {""}) \ {probe.searchTerm} :
       probe' = appEffects(probe, [probe EXCEPT !.searchTerm = value,
                                                !.event = "setSearchTerm"])
  /\ UNCHANGED serverVars

(* Searchbar.handleSubmit: fetchWeather(searchTerm) *)
AppSubmit ==
  /\ probe.op = "App"
  /\ probe.started < MaxFetches
  /\ probe.searchTerm # ""
  /\ probe' = appEffects(probe,
       fetchWeather([probe EXCEPT !.event = "handleSubmit"], probe.searchTerm, TRUE))
  /\ UNCHANGED serverVars

(* Searchbar.handleSuggestionMouseDown: setSearchTerm(suggestion.formatted) *)
(* and fetchWeather(suggestion)                                            *)
AppSelect ==
  /\ probe.op = "App"
  /\ probe.started < MaxFetches
  /\ \E suggestion \in Locations :
       probe' = appEffects(probe,
         fetchWeather([probe EXCEPT !.searchTerm = suggestion,
                                    !.event = "handleSuggestionMouseDown"],
                      suggestion, FALSE))
  /\ UNCHANGED serverVars

(* the geocode response of a call arrives *)
AppGeocodeReply ==
  /\ probe.op = "App"
  /\ \E c \in probe.calls, outcome \in {"results", "empty", "error"} :
       /\ c.stage = "geocode"
       /\ LET rest == probe.calls \ {c}
              q == [probe EXCEPT !.event = "geocode"]
          IN probe' = appEffects(probe,
               CASE outcome = "results" ->
                      [q EXCEPT !.calls = rest \cup {[c EXCEPT !.stage = "weather"]},
                                !.requests.weather = @ + 1]
                 [] outcome = "empty" ->
                      [q EXCEPT !.calls = rest, !.error = <<"Location not found. Please check your search input.">>,
                                !.loading = FALSE, !.searchTerm = ""]
                 [] OTHER ->
                      [q EXCEPT !.calls = rest, !.error = <<"Error fetching weather data. Please try again later.">>,
                                !.loading = FALSE])
  /\ UNCHANGED serverVars

(* the weather response of a call arrives *)
AppWeatherReply ==
  /\ probe.op = "App"
  /\ \E c \in probe.calls, outcome \in {"ok", "error"} :
       /\ c.stage = "weather"
       /\ LET q == [probe EXCEPT !.event = "weather", !.calls = @ \ {c}]
          IN probe' = appEffects(probe,
               IF outcome = "ok"
                 THEN [q EXCEPT !.weatherData = <<[location |-> c.location, call |-> c.id]>>,
                                !.locationName = c.location,
                                !.loading = FALSE,
                                !.newestOk = IF c.id > @.id
                                               THEN [id |-> c.id, location |-> c.location]
                                               ELSE @]
                 ELSE [q EXCEPT !.error = <<"Error fetching weather data. Please try again later.">>, !.loading = FALSE])
  /\ UNCHANGED serverVars

(* ToggleSwitch.handleToggle: onToggle(!isMetric), App.handleUnitToggle *)
handleUnitToggle ==
  /\ probe.op = "App"
  /\ probe' = appEffects(probe, [probe EXCEPT !.isMetric = ~@,
                                              !.event = "handleUnitToggle"])
  /\ UNCHANGED serverVars

(* C26: once every call of fetchWeather has settled, weatherData and       *)
(* locationName are those of the most recently started call that           *)
(* succeeded; in every state the two belong to the same location.          *)
C26_NewestCallWins ==
  probe.op = "App"
    => /\ probe.weatherData # <<>>
            => probe.weatherData[1].location = probe.locationName
       /\ probe.weatherData = <<>> => probe.locationName = ""
       /\ (probe.calls = {} /\ probe.newestOk.id > 0)
            => /\ probe.locationName = probe.newestOk.location
               /\ probe.weatherData[1].location = probe.newestOk.location

(* C27: loading is true exactly while at least one call of fetchWeather is *)
(* awaiting a response, so the cards are never rendered while a fetch is   *)
(* outstanding.                                                            *)
C27_LoadingWhileAwaiting ==
  probe.op = "App"
    => /\ probe.loading <=> (probe.calls # {})
       /\ cards(probe) => probe.calls = {}

(* C29: a unit toggle changes isMetric only: weatherData, locationName,    *)
(* searchTerm, loading and error stay as they are, and no request to       *)
(* geocode, weather or unsplash is issued.                                 *)
C29_ToggleChangesUnitsOnly ==
  [][(probe.op = "App" /\ probe'.event = "handleUnitToggle")
       => /\ probe'.isMetric = ~probe.isMetric
          /\ probe'.weatherData = probe.weatherData
          /\ probe'.locationName = probe.locationName
          /\ probe'.searchTerm = probe.searchTerm
          /\ probe'.loading = probe.loading
          /\ probe'.error = probe.error
          /\ probe'.requests = probe.requests
          /\ probe'.calls = probe.calls]_vars

(* the units were toggled while the cards are rendered *)
C29_Witness ==
  /\ probe.op = "App"
  /\ probe.event = "handleUnitToggle"
  /\ cards(probe)
  /\ probe.isMetric
  /\ probe.requests.unsplash = 1

(***************************************************************************)
(* The specification of the frontend's stateful parts.                     *)
(***************************************************************************)
InitUI ==
  /\ IdleServer
  /\ probe \in DebounceProbes \cup SearchbarProbes \cup AppProbes

NextUI ==
  \/ DebounceValue
  \/ DebounceDelay
  \/ DebounceEffect
  \/ DebounceFire
  \/ DebounceTick
  \/ handleInputChange
  \/ handleSuggestionMouseDown
  \/ handleSubmit
  \/ handleClickOutside
  \/ SearchbarDebounce
  \/ SearchbarGeocode
  \/ AppSetSearchTerm
  \/ AppSubmit
  \/ AppSelect
  \/ AppGeocodeReply
  \/ AppWeatherReply
  \/ handleUnitToggle

SpecUI == InitUI /\ [][NextUI]_vars

=============================================================================
